---- MODULE Spec2Model ----
(***************************************************************************)
(* Model of DiscoveryAgent.parseJson                                       *)
(* (src/all_agents_tutorials/data_scribe/discovery_agent.py, lines         *)
(* 156-197): text extraction, JSON decoding, the two-pass graph build over *)
(* an undirected networkx Graph, and the rendering step.                   *)
(*                                                                         *)
(* Two specifications share the variables:                                 *)
(*   SpecExtract  lines 157-158, on texts over a small alphabet;           *)
(*   Spec         lines 160-197, starting from the value json.loads        *)
(*                returned (a list of table dicts).                        *)
(***************************************************************************)
EXTENDS Integers, Sequences, FiniteSets, TLC

VARIABLES output_, j, data, G, nodeIds, columnIds, labeldict, color_map,
          canonicalColumns, pc, ti, ci, exc, tableNode, columnNode

vars == <<output_, j, data, G, nodeIds, columnIds, labeldict, color_map,
          canonicalColumns, pc, ti, ci, exc, tableNode, columnNode>>

(***************************************************************************)
(* Bounds of the model.                                                    *)
(***************************************************************************)
\* largest number of tables in a document
MaxTables == 2
\* largest number of columns in a document, all tables together
MaxColumns == 2
\* longest input text of SpecExtract
MaxText == 3

\* Names are chosen so that two different (table, column) pairs concatenate
\* to the same string: "a" + "bc" = "ab" + "c".
TableNames == {"a", "ab"}
ColumnNames == {"c", "bc"}
ColumnTypes == {"int"}
Optionals == {FALSE}
\* characters of the texts of SpecExtract; "\n" is the line break
Chars == {"\n", "[", "]", "x"}

(***************************************************************************)
(* Python values.                                                          *)
(***************************************************************************)
\* JSON null / Python None: the function with empty domain, which differs
\* from every dict that has a key.
None == [n \in {} |-> n]
EmptyDict == [n \in {} |-> n]
NoException == [type |-> "none", arg |-> ""]

\* d[k] raises KeyError exactly when k is not a key of d
Has(d, k) == k \in DOMAIN d
KeyError(k) == [type |-> "KeyError", arg |-> k]

\* d[k] = v on a dict
DictSet(d, k, v) == [x \in (DOMAIN d) \cup {k} |-> IF x = k THEN v ELSE d[x]]

(***************************************************************************)
(* Text extraction, line 157:                                              *)
(*   j = output_[output_.find('\n') + 1:output_.rfind('\n')]               *)
(* Indices are Python's (0-based); a text is a sequence of characters.     *)
(***************************************************************************)
\* str.find('\n'): lowest index of a line break, -1 when there is none
Find(s) ==
    IF \E i \in 1..Len(s) : s[i] = "\n"
    THEN (CHOOSE i \in 1..Len(s) : s[i] = "\n" /\ \A k \in 1..(i-1) : s[k] # "\n") - 1
    ELSE -1

\* str.rfind('\n'): highest index of a line break, -1 when there is none
RFind(s) ==
    IF \E i \in 1..Len(s) : s[i] = "\n"
    THEN (CHOOSE i \in 1..Len(s) : s[i] = "\n" /\ \A k \in (i+1)..Len(s) : s[k] # "\n") - 1
    ELSE -1

\* a slice bound as Python normalises it: negative counts from the end,
\* then clamped to 0..len
SliceBound(s, b) ==
    LET n == IF b < 0 THEN b + Len(s) ELSE b
    IN  IF n < 0 THEN 0 ELSE IF n > Len(s) THEN Len(s) ELSE n

\* s[a:b]
Slice(s, a, b) ==
    LET lo == SliceBound(s, a)
        hi == SliceBound(s, b)
    IN  IF lo >= hi THEN <<>> ELSE SubSeq(s, lo + 1, hi)

ExtractPayload(s) == Slice(s, Find(s) + 1, RFind(s))

(***************************************************************************)
(* json.loads, line 158, on texts over Chars.  A line break is JSON        *)
(* whitespace; "[" and "]" are the only tokens of the alphabet that occur  *)
(* in a JSON text, and without a comma an array has at most one element.   *)
(***************************************************************************)
StripWhitespace(s) == SelectSeq(s, LAMBDA c : c # "\n")

RECURSIVE IsJsonValue(_)
IsJsonValue(toks) ==
    /\ Len(toks) >= 2
    /\ toks[1] = "["
    /\ toks[Len(toks)] = "]"
    /\ \/ Len(toks) = 2
       \/ IsJsonValue(SubSeq(toks, 2, Len(toks) - 1))

RECURSIVE JsonValue(_)
JsonValue(toks) ==
    IF Len(toks) = 2 THEN <<>> ELSE <<JsonValue(SubSeq(toks, 2, Len(toks) - 1))>>

JsonLoads(s) ==
    LET toks == StripWhitespace(s)
    IN  IF IsJsonValue(toks)
        THEN [ok |-> TRUE, value |-> JsonValue(toks)]
        ELSE [ok |-> FALSE, value |-> <<>>]

(***************************************************************************)
(* networkx.Graph: undirected, no parallel edges.  nodes maps a node id to *)
(* its attribute dict; an edge is the set of its end points (a self loop   *)
(* is a singleton).                                                        *)
(***************************************************************************)
EmptyGraph == [nodes |-> EmptyDict, edges |-> {}]

\* G.add_node(n): an existing node keeps its attributes
AddNode(g, n) ==
    IF n \in DOMAIN g.nodes THEN g
    ELSE [g EXCEPT !.nodes = DictSet(g.nodes, n, EmptyDict)]

\* G.nodes[n][k] = v
SetAttr(g, n, k, v) == [g EXCEPT !.nodes = DictSet(g.nodes, n, DictSet(g.nodes[n], k, v))]

\* G.add_edge(u, v): adds missing end points, then the edge
AddEdge(g, u, v) ==
    LET g2 == AddNode(AddNode(g, u), v)
    IN  [g2 EXCEPT !.edges = g2.edges \cup {{u, v}}]

NumberOfNodes(g) == Cardinality(DOMAIN g.nodes)

(***************************************************************************)
(* The documents json.loads can return (the inputs of Spec): a list of     *)
(* table dicts.  A well-formed document has every key the code reads; the  *)
(* others lack exactly one key in one table or column dict.                *)
(***************************************************************************)
ForeignKeys == {None} \cup [table : TableNames, column : ColumnNames]

ColumnRecords ==
    [columnName : ColumnNames, columnType : ColumnTypes,
     isOptional : Optionals, foreignKeyReference : ForeignKeys]

TableKeys == {"tableName", "columns"}
ColumnKeys == {"columnName", "columnType", "isOptional", "foreignKeyReference"}

\* c[1] + ... + c[n]
RECURSIVE SumTo(_, _)
SumTo(c, n) == IF n = 0 THEN 0 ELSE c[n] + SumTo(c, n - 1)

\* the column counts of documents of t tables: at most MaxColumns in all
Shapes(t) == { c \in [1..t -> 0..MaxColumns] : SumTo(c, t) <= MaxColumns }

ShapePositions(t, shape) == UNION { { <<i, k>> : k \in 1..shape[i] } : i \in 1..t }

\* the well-formed document of t tables named names[i], table i having the
\* columns cols[<<i, 1>>] .. cols[<<i, shape[i]>>]
MakeDoc(t, shape, names, cols) ==
    [i \in 1..t |-> [tableName |-> names[i],
                     columns |-> [k \in 1..shape[i] |-> cols[<<i, k>>]]]]

DropKey(d, k) == [x \in (DOMAIN d) \ {k} |-> d[x]]

DropTableKey(doc, t, k) == [doc EXCEPT ![t] = DropKey(doc[t], k)]

DropColumnKey(doc, t, c, k) ==
    [doc EXCEPT ![t] = [doc[t] EXCEPT !.columns =
        [doc[t].columns EXCEPT ![c] = DropKey(doc[t].columns[c], k)]]]

\* a defect <<t, c, k>> removes key k from column c of table t, or from
\* the table dict itself when c = 0; <<0, 0, "">> is no defect
NoDefect == <<0, 0, "">>

Defects(t, shape) ==
    {NoDefect}
    \cup { <<i, 0, k>> : i \in 1..t, k \in TableKeys }
    \cup { <<p[1], p[2], k>> : p \in ShapePositions(t, shape), k \in ColumnKeys }

WithDefect(doc, d) ==
    IF d = NoDefect THEN doc
    ELSE IF d[2] = 0 THEN DropTableKey(doc, d[1], d[3])
    ELSE DropColumnKey(doc, d[1], d[2], d[3])

Texts == UNION { [1..n -> Chars] : n \in 0..MaxText }

\* placeholder of the text variables in Spec, which starts after line 158
Elided == <<"...">>

(***************************************************************************)
(* Document facts used by the properties.                                  *)
(***************************************************************************)
WellFormedTable(t) ==
    /\ DOMAIN t = TableKeys
    /\ \A c \in 1..Len(t.columns) : DOMAIN t.columns[c] = ColumnKeys

WellFormed(doc) == \A t \in 1..Len(doc) : WellFormedTable(doc[t])

\* positions <<t, c>> of the columns of a well-formed document
Positions(doc) == UNION { { <<t, c>> : c \in 1..Len(doc[t].columns) } : t \in 1..Len(doc) }

TotalColumns(doc) == Cardinality(Positions(doc))

ColumnAt(doc, p) == doc[p[1]].columns[p[2]]

\* the (tableName, columnName) pair of the column at position p
PairAt(doc, p) == <<doc[p[1]].tableName, ColumnAt(doc, p).columnName>>

HasForeignKey(doc, p) == ColumnAt(doc, p).foreignKeyReference # None

\* the pair the foreign key of the column at p names
TargetAt(doc, p) ==
    <<ColumnAt(doc, p).foreignKeyReference.table, ColumnAt(doc, p).foreignKeyReference.column>>

ForeignKeyPositions(doc) == { p \in Positions(doc) : HasForeignKey(doc, p) }

\* the foreign key at p names a pair some column of the document has
TargetExists(doc, p) == \E q \in Positions(doc) : PairAt(doc, q) = TargetAt(doc, p)

(***************************************************************************)
(* The build, lines 160-188.  pc is the position in parseJson; ti and ci   *)
(* are the positions of the two for loops (ci = 0: the table's own         *)
(* statements, lines 167-171, have not run yet).  tableNode and columnNode *)
(* record which node id was allocated while iterating which table and      *)
(* column of the document.                                                 *)
(***************************************************************************)
\* a column counter that starts inside the range of the table ids
ColumnIdStartOverlapping(doc) == Len(doc) - 1

\* line 162: columnIds = len(data) + 1
ColumnIdStart(doc) == Len(doc) + 1

\* line 167: nodeIds += 1
NextNodeId(n) == n + 1

\* a column counter that is never advanced
NextColumnIdStuck(n) == n

\* line 173: columnIds += 1
NextColumnId(n) == n + 1

\* a registry key that leaves the table name out
CanonicalKeyColumnOnly(tableName, columnName) == columnName

\* line 180: the key under which a column is registered
CanonicalKey(tableName, columnName) == tableName \o columnName

\* line 180: canonicalColumns[key] = columnIds
Register(reg, key, id) == DictSet(reg, key, id)

\* a containment edge that always starts at the first table node
AddContainsEdgeFirstTable(g, tableId, columnId) == AddEdge(g, NextNodeId(0), columnId)

\* line 181: G.add_edge(nodeIds, columnIds)
AddContainsEdge(g, tableId, columnId) == AddEdge(g, tableId, columnId)

\* line 186: this_column
ThisColumnKey(table, column) == table.tableName \o column.columnName

\* line 187: reference_column_
ReferenceKey(fk) == fk.table \o fk.column

\* the first table from t on whose column loop has an iteration
RECURSIVE FirstWithColumns(_, _)
FirstWithColumns(doc, t) ==
    IF t > Len(doc) THEN t
    ELSE IF Len(doc[t].columns) > 0 THEN t
    ELSE FirstWithColumns(doc, t + 1)

Raise(e) == pc' = "error" /\ exc' = e

\* lines 166-172: one iteration of the outer loop of pass 1, up to the
\* evaluation of table["columns"]
Pass1Table ==
    /\ pc = "pass1"
    /\ ti <= Len(data)
    /\ ci = 0
    /\ LET table == data[ti]
           id == NextNodeId(nodeIds)
           g1 == AddNode(G, id)
       IN  /\ nodeIds' = id
           /\ tableNode' = DictSet(tableNode, ti, id)
           /\ IF ~Has(table, "tableName")
              THEN /\ G' = g1
                   /\ Raise(KeyError("tableName"))
                   /\ UNCHANGED <<labeldict, color_map, ti, ci>>
              ELSE /\ G' = SetAttr(g1, id, "tableName", table.tableName)
                   /\ labeldict' = DictSet(labeldict, id, table.tableName)
                   /\ color_map' = Append(color_map, "red")
                   /\ IF ~Has(table, "columns")
                      THEN /\ Raise(KeyError("columns"))
                           /\ UNCHANGED <<ti, ci>>
                      ELSE /\ UNCHANGED <<pc, exc>>
                           /\ IF Len(table.columns) = 0
                              THEN ti' = ti + 1 /\ ci' = 0
                              ELSE ti' = ti /\ ci' = 1
    /\ UNCHANGED <<output_, j, data, columnIds, canonicalColumns, columnNode>>

\* lines 172-181: one iteration of the inner loop of pass 1
Pass1Column ==
    /\ pc = "pass1"
    /\ ti <= Len(data)
    /\ ci >= 1
    /\ LET table == data[ti]
           column == table.columns[ci]
           id == NextColumnId(columnIds)
           g1 == AddNode(G, id)
       IN  /\ columnIds' = id
           /\ columnNode' = DictSet(columnNode, <<ti, ci>>, id)
           /\ IF ~Has(column, "columnName")
              THEN /\ G' = g1
                   /\ Raise(KeyError("columnName"))
                   /\ UNCHANGED <<labeldict, color_map, canonicalColumns, ti, ci>>
              ELSE IF ~Has(column, "columnType")
              THEN /\ G' = SetAttr(g1, id, "columnName", column.columnName)
                   /\ Raise(KeyError("columnType"))
                   /\ UNCHANGED <<labeldict, color_map, canonicalColumns, ti, ci>>
              ELSE IF ~Has(column, "isOptional")
              THEN /\ G' = SetAttr(SetAttr(g1, id, "columnName", column.columnName),
                                   id, "columnType", column.columnType)
                   /\ Raise(KeyError("isOptional"))
                   /\ UNCHANGED <<labeldict, color_map, canonicalColumns, ti, ci>>
              ELSE /\ G' = AddContainsEdge(
                              SetAttr(SetAttr(SetAttr(g1, id, "columnName", column.columnName),
                                              id, "columnType", column.columnType),
                                      id, "isOptional", column.isOptional),
                              nodeIds, id)
                   /\ labeldict' = DictSet(labeldict, id, column.columnName)
                   /\ color_map' = Append(color_map, "green")
                   /\ canonicalColumns' =
                          Register(canonicalColumns,
                                   CanonicalKey(table.tableName, column.columnName), id)
                   /\ UNCHANGED <<pc, exc>>
                   /\ IF ci < Len(table.columns)
                      THEN ti' = ti /\ ci' = ci + 1
                      ELSE ti' = ti + 1 /\ ci' = 0
    /\ UNCHANGED <<output_, j, data, nodeIds, tableNode>>

\* line 166 exhausted, line 183 entered
Pass1Done ==
    /\ pc = "pass1"
    /\ ti > Len(data)
    /\ pc' = "pass2"
    /\ ti' = FirstWithColumns(data, 1)
    /\ ci' = 1
    /\ UNCHANGED <<output_, j, data, G, nodeIds, columnIds, labeldict, color_map,
                   canonicalColumns, exc, tableNode, columnNode>>

\* lines 184-188: one iteration of the inner loop of pass 2
Pass2Column ==
    /\ pc = "pass2"
    /\ ti <= Len(data)
    /\ LET table == data[ti]
           column == table.columns[ci]
       IN  IF ~Has(column, "foreignKeyReference")
           THEN /\ Raise(KeyError("foreignKeyReference"))
                /\ UNCHANGED <<G, ti, ci>>
           ELSE LET fk == column.foreignKeyReference
                    advance == IF ci < Len(table.columns)
                               THEN ti' = ti /\ ci' = ci + 1
                               ELSE ti' = FirstWithColumns(data, ti + 1) /\ ci' = 1
                IN  IF fk = None
                    THEN /\ advance
                         /\ UNCHANGED <<G, pc, exc>>
                    ELSE IF ~Has(canonicalColumns, ThisColumnKey(table, column))
                    THEN /\ Raise(KeyError(ThisColumnKey(table, column)))
                         /\ UNCHANGED <<G, ti, ci>>
                    ELSE IF ~Has(canonicalColumns, ReferenceKey(fk))
                    THEN /\ Raise(KeyError(ReferenceKey(fk)))
                         /\ UNCHANGED <<G, ti, ci>>
                    ELSE /\ G' = AddEdge(G, canonicalColumns[ThisColumnKey(table, column)],
                                            canonicalColumns[ReferenceKey(fk)])
                         /\ advance
                         /\ UNCHANGED <<pc, exc>>
    /\ UNCHANGED <<output_, j, data, nodeIds, columnIds, labeldict, color_map,
                   canonicalColumns, tableNode, columnNode>>

\* line 183 exhausted, line 190 entered
Pass2Done ==
    /\ pc = "pass2"
    /\ ti > Len(data)
    /\ pc' = "render"
    /\ UNCHANGED <<output_, j, data, G, nodeIds, columnIds, labeldict, color_map,
                   canonicalColumns, ti, ci, exc, tableNode, columnNode>>

\* lines 190-197: layout, drawing, return G.  The layout and drawing
\* libraries read G and leave it unchanged.
Render ==
    /\ pc = "render"
    /\ pc' = "done"
    /\ UNCHANGED <<output_, j, data, G, nodeIds, columnIds, labeldict, color_map,
                   canonicalColumns, ti, ci, exc, tableNode, columnNode>>

\* the state at line 160-165, for a value `doc` of data
BuildStart(doc) ==
    /\ data = doc
    /\ G = EmptyGraph
    /\ nodeIds = 0
    /\ columnIds = ColumnIdStart(doc)
    /\ labeldict = EmptyDict
    /\ color_map = <<>>
    /\ canonicalColumns = EmptyDict
    /\ pc = "pass1"
    /\ ti = 1
    /\ ci = 0
    /\ exc = NoException
    /\ tableNode = EmptyDict
    /\ columnNode = EmptyDict

Init ==
    /\ output_ = Elided
    /\ j = Elided
    /\ \E t \in 0..MaxTables : \E shape \in Shapes(t) :
       \E names \in [1..t -> TableNames] :
       \E cols \in [ShapePositions(t, shape) -> ColumnRecords] :
       \E d \in Defects(t, shape) :
           BuildStart(WithDefect(MakeDoc(t, shape, names, cols), d))

Next ==
    \/ Pass1Table
    \/ Pass1Column
    \/ Pass1Done
    \/ Pass2Column
    \/ Pass2Done
    \/ Render

Spec == Init /\ [][Next]_vars

(***************************************************************************)
(* Extraction and decoding, lines 157-158.                                 *)
(***************************************************************************)
\* line 157
Extract ==
    /\ pc = "extract"
    /\ j' = ExtractPayload(output_)
    /\ pc' = "loads"
    /\ UNCHANGED <<output_, data, G, nodeIds, columnIds, labeldict, color_map,
                   canonicalColumns, ti, ci, exc, tableNode, columnNode>>

\* line 158: data = json.loads(j)
Loads ==
    /\ pc = "loads"
    /\ LET r == JsonLoads(j)
       IN  IF r.ok
           THEN /\ data' = r.value
                /\ pc' = "loaded"
                /\ UNCHANGED exc
           ELSE /\ Raise([type |-> "JSONDecodeError", arg |-> ""])
                /\ UNCHANGED data
    /\ UNCHANGED <<output_, j, G, nodeIds, columnIds, labeldict, color_map,
                   canonicalColumns, ti, ci, tableNode, columnNode>>

InitExtract ==
    /\ output_ \in Texts
    /\ j = <<>>
    /\ data = <<>>
    /\ G = EmptyGraph
    /\ nodeIds = 0
    /\ columnIds = 0
    /\ labeldict = EmptyDict
    /\ color_map = <<>>
    /\ canonicalColumns = EmptyDict
    /\ pc = "extract"
    /\ ti = 1
    /\ ci = 0
    /\ exc = NoException
    /\ tableNode = EmptyDict
    /\ columnNode = EmptyDict

NextExtract ==
    \/ Extract
    \/ Loads

SpecExtract == InitExtract /\ [][NextExtract]_vars

(***************************************************************************)
(* Vocabulary of the properties.                                           *)
(***************************************************************************)
\* the build has completed: both passes ran to the end
Built == pc \in {"render", "done"}

\* pass 1 has registered every column of every table
Pass1Complete == pc \in {"pass2", "render", "done"}

IsTableNode(g, n) == Has(g.nodes[n], "tableName")
IsColumnNode(g, n) == Has(g.nodes[n], "columnName")

\* edges between a table node and a column node
ContainsEdges(g) ==
    { e \in g.edges : \E u \in e, v \in e : IsTableNode(g, u) /\ IsColumnNode(g, v) }

\* edges whose end points are column nodes
ReferencesEdges(g) == { e \in g.edges : \A u \in e : IsColumnNode(g, u) }

\* p comes before q in document order
Before(p, q) == p[1] < q[1] \/ (p[1] = q[1] /\ p[2] < q[2])

AllTargetsExist(doc) == \A p \in ForeignKeyPositions(doc) : TargetExists(doc, p)

NoForeignKeys(doc) == ForeignKeyPositions(doc) = {}

\* number of line breaks of a text
LineBreaks(s) == Cardinality({ i \in 1..Len(s) : s[i] = "\n" })

(***************************************************************************)
(* C1: a built graph has exactly T + (c1 + ... + cT) nodes and exactly     *)
(* (c1 + ... + cT) table-to-column edges, T being the number of tables and *)
(* ci the number of columns of table i, also when names repeat.            *)
(***************************************************************************)
C1_NodeAndContainsCount ==
    Built =>
        /\ NumberOfNodes(G) = Len(data) + TotalColumns(data)
        /\ Cardinality(ContainsEdges(G)) = TotalColumns(data)

\* a graph was returned for two tables of one name whose columns share a name
C1_Witness ==
    /\ pc = "done"
    /\ Len(data) = 2
    /\ data[1].tableName = data[2].tableName
    /\ \E p \in Positions(data), q \in Positions(data) :
           p # q /\ PairAt(data, p) = PairAt(data, q)

(***************************************************************************)
(* C2: when every foreign-key target exists, a built graph has as many     *)
(* References edges as the document has columns with a non-null            *)
(* foreignKeyReference.                                                    *)
(***************************************************************************)
C2_ReferencesCount ==
    (Built /\ AllTargetsExist(data)) =>
        Cardinality(ReferencesEdges(G)) = Cardinality(ForeignKeyPositions(data))

(***************************************************************************)
(* C3: when a non-null foreignKeyReference of a document with all keys     *)
(* present names a pair no column has, the build never reaches rendering   *)
(* or return, and the error it ends in is UnresolvedReferenceError.        *)
(***************************************************************************)
C3_UnresolvedReference ==
    (WellFormed(data) /\ ~AllTargetsExist(data)) =>
        /\ ~Built
        /\ pc = "error" => exc.type = "UnresolvedReferenceError"

(***************************************************************************)
(* C4: in a built graph the nodes are exactly the allocated ones, table    *)
(* ids increase in document order, every table id is smaller than every    *)
(* column id, and column ids increase in document order (table, then       *)
(* position in the table); hence all ids are pairwise distinct.            *)
(***************************************************************************)
C4_IdOrder ==
    Built =>
        /\ DOMAIN tableNode = 1..Len(data)
        /\ DOMAIN columnNode = Positions(data)
        /\ DOMAIN G.nodes = { tableNode[t] : t \in 1..Len(data) }
                            \cup { columnNode[p] : p \in Positions(data) }
        /\ \A t \in 1..Len(data), u \in 1..Len(data) :
               t < u => tableNode[t] < tableNode[u]
        /\ \A t \in 1..Len(data), p \in Positions(data) : tableNode[t] < columnNode[p]
        /\ \A p \in Positions(data), q \in Positions(data) :
               Before(p, q) => columnNode[p] < columnNode[q]

\* a graph was returned for a document with two columns and two tables
C4_Witness ==
    /\ pc = "done"
    /\ Len(data) = 2
    /\ TotalColumns(data) >= 2

(***************************************************************************)
(* C5: the registry is write-once (a step never removes an entry or        *)
(* changes the id an entry maps to), and once pass 1 is complete two       *)
(* different (tableName, columnName) pairs of the document never resolve   *)
(* to the same id.                                                         *)
(***************************************************************************)
C5_WriteOnceRegistry ==
    /\ [][\A k \in DOMAIN canonicalColumns :
              Has(canonicalColumns', k) /\ canonicalColumns'[k] = canonicalColumns[k]]_vars
    /\ [](Pass1Complete =>
            \A p \in Positions(data), q \in Positions(data) :
                PairAt(data, p) # PairAt(data, q) =>
                    canonicalColumns[CanonicalKey(PairAt(data, p)[1], PairAt(data, p)[2])]
                    # canonicalColumns[CanonicalKey(PairAt(data, q)[1], PairAt(data, q)[2])])

(***************************************************************************)
(* C6: on a text with fewer than two line breaks, extraction is followed   *)
(* by nothing but the error ExtractionError; no payload reaches the JSON   *)
(* decoder.                                                                *)
(***************************************************************************)
C6_ExtractionFails ==
    (LineBreaks(output_) < 2 /\ pc # "extract") =>
        (pc = "error" /\ exc.type = "ExtractionError")

(***************************************************************************)
(* C7: for a document in which a table or column dict lacks a required     *)
(* key, no node or edge is ever created, the build never completes, and    *)
(* the error it ends in is SchemaParseError.                               *)
(***************************************************************************)
C7_SchemaParseError ==
    ~WellFormed(data) =>
        /\ G = EmptyGraph
        /\ ~Built
        /\ pc = "error" => exc.type = "SchemaParseError"

(***************************************************************************)
(* C8: for a document without foreign keys the built graph is a disjoint   *)
(* union of stars: every edge joins a table node to a column node          *)
(* allocated while iterating that table, and every column node lies on     *)
(* exactly one edge, the one to its own table node.                        *)
(***************************************************************************)
C8_DisjointStars ==
    (Built /\ NoForeignKeys(data)) =>
        /\ \A e \in G.edges : \E p \in Positions(data) :
               /\ e = {tableNode[p[1]], columnNode[p]}
               /\ Cardinality(e) = 2
        /\ \A p \in Positions(data) :
               { e \in G.edges : columnNode[p] \in e } = { {tableNode[p[1]], columnNode[p]} }
        /\ \A t \in 1..Len(data), u \in 1..Len(data) :
               {tableNode[t], tableNode[u]} \notin G.edges

\* a graph was returned for two tables with one column each and no foreign key
C8_Witness ==
    /\ pc = "done"
    /\ NoForeignKeys(data)
    /\ Len(data) = 2
    /\ \A t \in 1..2 : Len(data[t].columns) >= 1
    /\ Cardinality(G.edges) = 2

(***************************************************************************)
(* C9: a step of pass 2 that changes the graph adds exactly one edge, from *)
(* the node allocated for the column being visited to the node allocated   *)
(* for a column whose (tableName, columnName) is the pair its              *)
(* foreignKeyReference names.                                              *)
(***************************************************************************)
C9_ReferenceEnds ==
    [][(pc = "pass2" /\ G' # G) =>
          \E q \in Positions(data) :
              /\ PairAt(data, q) = TargetAt(data, <<ti, ci>>)
              /\ G' = AddEdge(G, columnNode[<<ti, ci>>], columnNode[q])]_vars

(***************************************************************************)
(* C10: no edge between column nodes exists while pass 1 is running, and a *)
(* document with all keys present whose foreign-key targets all exist      *)
(* never ends in an error, whatever the order of its tables.               *)
(***************************************************************************)
C10_OrderIndependent ==
    /\ pc = "pass1" => \A e \in G.edges : \E u \in e : ~IsColumnNode(G, u)
    /\ (WellFormed(data) /\ AllTargetsExist(data)) => pc # "error"

\* a graph was returned for a document in which a foreign key names a pair
\* that only a later table has
C10_Witness ==
    /\ pc = "done"
    /\ \E p \in ForeignKeyPositions(data) :
           /\ \E q \in Positions(data) : PairAt(data, q) = TargetAt(data, p)
           /\ \A q \in Positions(data) : PairAt(data, q) = TargetAt(data, p) => q[1] > p[1]
           /\ \E e \in G.edges : columnNode[p] \in e /\ Cardinality(e) = 2
                                 /\ \A u \in e : IsColumnNode(G, u)

====
